---- MODULE Spec2Model ----
(***************************************************************************)
(* Model of test-new-init/programs/zisk/build.rs, the cargo build script   *)
(* of a ZisK program.  main() prints one rerun directive, asks whether the *)
(* relative path "build" exists and, when it does not, calls               *)
(* fs::create_dir on it and unwraps the Result.                            *)
(*                                                                         *)
(* The state is the part of the working directory the script can see or    *)
(* touch, plus the position, locals and output of every invocation of the  *)
(* script.  Each library call of main() is one step, so that invocations   *)
(* sharing a working directory interleave between the existence check and  *)
(* the create call exactly as processes do.                                *)
(***************************************************************************)
EXTENDS Naturals, Sequences, FiniteSets, TLC

\* Number of invocations of the build script sharing the working directory.
NumProcs == 3

Procs == 1..NumProcs

\* The line main() prints (build.rs line 7).
Directive == "cargo:rerun-if-changed=inputs/"

\* Path::new("build") (build.rs line 10).
BuildPath == "build"

\* The paths of the working directory the model tracks: the build path, one
\* entry inside it (its contents), and the inputs directory the directive names.
Paths == {"build", "build/artifact", "inputs"}

\* What a path can hold.  "brokenlink" is a symbolic link whose target is
\* missing: an entry of the directory that Path::exists reports as absent.
Kinds == {"absent", "file", "dir", "brokenlink"}

\* The working directories an invocation can be started in.
FsStates ==
  { f \in [Paths -> Kinds] :
      /\ f["build/artifact"] \in {"absent", "file"}
      /\ (f["build/artifact"] # "absent" => f["build"] = "dir")
      /\ f["inputs"] \in {"absent", "dir"} }

VARIABLES
  fs,          \* the working directory: Paths -> Kinds
  cwdWritable, \* whether the OS lets these processes create entries in it
  fs0,         \* history: the working directory before any invocation
  pc,          \* per invocation: the statement of main() it is at
  stdout,      \* per invocation: the lines printed so far
  found,       \* per invocation: the value build_dir.exists() returned
  observed,    \* history: what was at "build" when exists() looked
  result,      \* per invocation: the Result fs::create_dir returned
  createCalls, \* history: number of fs::create_dir calls made
  fsAtStart,   \* history: the working directory when the invocation started
  fsAtExit     \* history: the working directory when the invocation ended

vars == <<fs, cwdWritable, fs0, pc, stdout, found, observed, result,
          createCalls, fsAtStart, fsAtExit>>

\* Exit status of a Rust process whose main thread panicked.
PanicExitCode == 101

Terminated(p) == pc[p] \in {"exited", "panicked"}
Running(p) == pc[p] \notin {"idle", "exited", "panicked"}
ExitCode(p) == IF pc[p] = "panicked" THEN PanicExitCode ELSE 0

\* Errors fs::create_dir can return.
Errors == {"AlreadyExists", "PermissionDenied"}

\* Mutant of PathExists: Path::is_dir in place of Path::exists.
PathIsDir(kind) == kind = "dir"

\* Path::exists: follows symbolic links, false when the metadata cannot be read.
PathExists(kind) == kind \in {"file", "dir"}

\* The Result of fs::create_dir (mkdir(2)) on a path holding `kind`: any entry,
\* a dangling link included, gives AlreadyExists; otherwise the parent must
\* allow the creation.
CreateDirResult(kind, writable) ==
  IF kind # "absent" THEN "AlreadyExists"
  ELSE IF writable THEN "Ok" ELSE "PermissionDenied"

Init ==
  /\ fs \in FsStates
  /\ cwdWritable \in BOOLEAN
  /\ fs0 = fs
  /\ pc = [p \in Procs |-> "idle"]
  /\ stdout = [p \in Procs |-> <<>>]
  /\ found = [p \in Procs |-> "unset"]
  /\ observed = [p \in Procs |-> "unset"]
  /\ result = [p \in Procs |-> "unset"]
  /\ createCalls = [p \in Procs |-> 0]
  /\ fsAtStart = [p \in Procs |-> fs]
  /\ fsAtExit = [p \in Procs |-> fs]

\* The host toolchain starts invocation p.
Start(p) ==
  /\ pc[p] = "idle"
  /\ pc' = [pc EXCEPT ![p] = "println"]
  /\ fsAtStart' = [fsAtStart EXCEPT ![p] = fs]
  /\ UNCHANGED <<fs, cwdWritable, fs0, stdout, found, observed, result,
                 createCalls, fsAtExit>>

\* The host starts invocation p when no other invocation is running.
StartSeq(p) ==
  /\ \A q \in Procs : ~Running(q)
  /\ Start(p)

\* Mutant of Println: the directive printed inside the `if`, so only when
\* "build" is missing.
PrintlnWhenMissing(p) ==
  /\ pc[p] = "println"
  /\ stdout' = [stdout EXCEPT ![p] =
                  IF PathExists(fs[BuildPath]) THEN @ ELSE Append(@, Directive)]
  /\ pc' = [pc EXCEPT ![p] = "exists"]
  /\ UNCHANGED <<fs, cwdWritable, fs0, found, observed, result, createCalls,
                 fsAtStart, fsAtExit>>

\* println!("cargo:rerun-if-changed=inputs/");
Println(p) ==
  /\ pc[p] = "println"
  /\ stdout' = [stdout EXCEPT ![p] = Append(@, Directive)]
  /\ pc' = [pc EXCEPT ![p] = "exists"]
  /\ UNCHANGED <<fs, cwdWritable, fs0, found, observed, result, createCalls,
                 fsAtStart, fsAtExit>>

\* Mutant of Exists: the negation dropped, `if build_dir.exists() { ... }`.
ExistsNegationDropped(p) ==
  /\ pc[p] = "exists"
  /\ observed' = [observed EXCEPT ![p] = fs[BuildPath]]
  /\ found' = [found EXCEPT ![p] =
                 IF PathExists(fs[BuildPath]) THEN "true" ELSE "false"]
  /\ pc' = [pc EXCEPT ![p] =
              IF PathExists(fs[BuildPath]) THEN "create_dir" ELSE "return"]
  /\ UNCHANGED <<fs, cwdWritable, fs0, stdout, result, createCalls,
                 fsAtStart, fsAtExit>>

\* if !build_dir.exists() { ... }
Exists(p) ==
  /\ pc[p] = "exists"
  /\ observed' = [observed EXCEPT ![p] = fs[BuildPath]]
  /\ found' = [found EXCEPT ![p] =
                 IF PathExists(fs[BuildPath]) THEN "true" ELSE "false"]
  /\ pc' = [pc EXCEPT ![p] =
              IF PathExists(fs[BuildPath]) THEN "return" ELSE "create_dir"]
  /\ UNCHANGED <<fs, cwdWritable, fs0, stdout, result, createCalls,
                 fsAtStart, fsAtExit>>

\* Mutant of CreateDir: the directory created at another path ("inputs").
CreateDirWrongPath(p) ==
  /\ pc[p] = "create_dir"
  /\ createCalls' = [createCalls EXCEPT ![p] = @ + 1]
  /\ result' = [result EXCEPT ![p] = CreateDirResult(fs["inputs"], cwdWritable)]
  /\ fs' = IF CreateDirResult(fs["inputs"], cwdWritable) = "Ok"
           THEN [fs EXCEPT !["inputs"] = "dir"]
           ELSE fs
  /\ pc' = [pc EXCEPT ![p] = "unwrap"]
  /\ UNCHANGED <<cwdWritable, fs0, stdout, found, observed, fsAtStart, fsAtExit>>

\* Mutant of CreateDir: whatever is at "build" is removed first, then the
\* directory is created afresh.
CreateDirClobber(p) ==
  /\ pc[p] = "create_dir"
  /\ createCalls' = [createCalls EXCEPT ![p] = @ + 1]
  /\ result' = [result EXCEPT ![p] = IF cwdWritable THEN "Ok" ELSE "PermissionDenied"]
  /\ fs' = IF cwdWritable
           THEN [fs EXCEPT ![BuildPath] = "dir", !["build/artifact"] = "absent"]
           ELSE fs
  /\ pc' = [pc EXCEPT ![p] = "unwrap"]
  /\ UNCHANGED <<cwdWritable, fs0, stdout, found, observed, fsAtStart, fsAtExit>>

\* Mutant of CreateDir: fs::create_dir_all, which returns Ok when the
\* directory is already there.
CreateDirAll(p) ==
  /\ pc[p] = "create_dir"
  /\ createCalls' = [createCalls EXCEPT ![p] = @ + 1]
  /\ result' = [result EXCEPT ![p] =
                  IF fs[BuildPath] = "dir" THEN "Ok"
                  ELSE CreateDirResult(fs[BuildPath], cwdWritable)]
  /\ fs' = IF CreateDirResult(fs[BuildPath], cwdWritable) = "Ok"
           THEN [fs EXCEPT ![BuildPath] = "dir"]
           ELSE fs
  /\ pc' = [pc EXCEPT ![p] = "unwrap"]
  /\ UNCHANGED <<cwdWritable, fs0, stdout, found, observed, fsAtStart, fsAtExit>>

\* fs::create_dir(build_dir)
CreateDir(p) ==
  /\ pc[p] = "create_dir"
  /\ createCalls' = [createCalls EXCEPT ![p] = @ + 1]
  /\ result' = [result EXCEPT ![p] = CreateDirResult(fs[BuildPath], cwdWritable)]
  /\ fs' = IF CreateDirResult(fs[BuildPath], cwdWritable) = "Ok"
           THEN [fs EXCEPT ![BuildPath] = "dir"]
           ELSE fs
  /\ pc' = [pc EXCEPT ![p] = "unwrap"]
  /\ UNCHANGED <<cwdWritable, fs0, stdout, found, observed, fsAtStart, fsAtExit>>

\* Mutant of Unwrap: the Result discarded (`let _ = ...` or `.ok()`).
UnwrapDiscard(p) ==
  /\ pc[p] = "unwrap"
  /\ pc' = [pc EXCEPT ![p] = "return"]
  /\ UNCHANGED <<fs, cwdWritable, fs0, stdout, found, observed, result,
                 createCalls, fsAtStart, fsAtExit>>

\* Mutant of Unwrap: a failed creation is tried again.
UnwrapRetry(p) ==
  /\ pc[p] = "unwrap"
  /\ pc' = [pc EXCEPT ![p] = IF result[p] = "Ok" THEN "return" ELSE "create_dir"]
  /\ UNCHANGED <<fs, cwdWritable, fs0, stdout, found, observed, result,
                 createCalls, fsAtStart, fsAtExit>>

\* Mutant of Unwrap: the "create, tolerate already-exists" idiom.
UnwrapTolerateExists(p) ==
  /\ pc[p] = "unwrap"
  /\ pc' = [pc EXCEPT ![p] =
              IF result[p] \in {"Ok", "AlreadyExists"} THEN "return" ELSE "panicked"]
  /\ fsAtExit' = [fsAtExit EXCEPT ![p] =
                    IF result[p] \in {"Ok", "AlreadyExists"} THEN @ ELSE fs]
  /\ UNCHANGED <<fs, cwdWritable, fs0, stdout, found, observed, result,
                 createCalls, fsAtStart>>

\* .unwrap(): Ok falls through to the end of main, any Err panics.
Unwrap(p) ==
  /\ pc[p] = "unwrap"
  /\ pc' = [pc EXCEPT ![p] = IF result[p] = "Ok" THEN "return" ELSE "panicked"]
  /\ fsAtExit' = [fsAtExit EXCEPT ![p] = IF result[p] = "Ok" THEN @ ELSE fs]
  /\ UNCHANGED <<fs, cwdWritable, fs0, stdout, found, observed, result,
                 createCalls, fsAtStart>>

\* The closing brace of main: the process exits with status 0.
Return(p) ==
  /\ pc[p] = "return"
  /\ pc' = [pc EXCEPT ![p] = "exited"]
  /\ fsAtExit' = [fsAtExit EXCEPT ![p] = fs]
  /\ UNCHANGED <<fs, cwdWritable, fs0, stdout, found, observed, result,
                 createCalls, fsAtStart>>

\* One step of main() in invocation p.
Step(p) ==
  \/ Println(p)
  \/ Exists(p)
  \/ CreateDir(p)
  \/ Unwrap(p)
  \/ Return(p)

\* Invocations one after another: the host re-running the script.
Next == \E p \in Procs : StartSeq(p) \/ Step(p)

Spec == Init /\ [][Next]_vars

\* Invocations started at any time: preparers of independent build targets
\* running concurrently in one working directory.
NextConc == \E p \in Procs : Start(p) \/ Step(p)

SpecConc == Init /\ [][NextConc]_vars

\* A started process keeps being scheduled until it ends.
FairSpecConc == SpecConc /\ \A p \in Procs : WF_vars(Step(p))

(***************************************************************************)
(* The claims.                                                             *)
(***************************************************************************)

\* C1 (as stated): every invocation that starts with nothing at "build" has,
\* once it has run, a directory at "build".
C1_AbsentBecomesDir ==
  \A p \in Procs :
    (Terminated(p) /\ fsAtStart[p][BuildPath] = "absent") => fs[BuildPath] = "dir"

\* C1 (amended): every invocation that starts with nothing at "build" and in
\* which directory creation does not fail has, once it has run, a directory
\* at "build".
C1_AbsentBecomesDirUnlessCreateFails ==
  \A p \in Procs :
    (Terminated(p) /\ fsAtStart[p][BuildPath] = "absent" /\ result[p] \notin Errors)
      => (fs[BuildPath] = "dir" /\ pc[p] = "exited")

C1_Witness ==
  \E p \in Procs :
    /\ pc[p] = "exited"
    /\ fsAtStart[p][BuildPath] = "absent"
    /\ result[p] = "Ok"
    /\ fs[BuildPath] = "dir"

\* C2 (as stated): after every invocation that exited successfully, "build"
\* is a directory, whatever was at "build" before.
C2_SuccessImpliesDir ==
  \A p \in Procs : pc[p] = "exited" => fs[BuildPath] = "dir"

\* C3 (as stated): when directory creation fails, the process ends with a
\* non-zero status and no directory is at "build" once it has ended, whatever
\* the cause of the failure.
C3_FailureLeavesNoDir ==
  \A p \in Procs :
    (result[p] \in Errors /\ Terminated(p))
      => (ExitCode(p) # 0 /\ fs[BuildPath] # "dir")

\* C3 (amended): when directory creation fails, the invocation goes on to
\* nothing but the panic and ends with a non-zero status, and a directory is
\* at "build" once it has ended only if the create call of another invocation
\* made it.
C3_FailureAbortsAndCreatesNothing ==
  \A p \in Procs :
    result[p] \in Errors =>
      /\ pc[p] \in {"unwrap", "panicked"}
      /\ Terminated(p) => ExitCode(p) # 0
      /\ (Terminated(p) /\ fs[BuildPath] = "dir")
           => \E q \in Procs \ {p} : result[q] = "Ok"

C3_Witness ==
  \E p \in Procs :
    /\ result[p] = "AlreadyExists"
    /\ observed[p] = "absent"
    /\ pc[p] = "panicked"
    /\ fs[BuildPath] = "dir"

\* C4: every invocation prints the rerun directive exactly once, as its first
\* step, whatever is at "build" and however the creation ends.
C4_DirectiveOnce ==
  \A p \in Procs :
    /\ pc[p] \in {"idle", "println"} => stdout[p] = <<>>
    /\ pc[p] \notin {"idle", "println"} => stdout[p] = <<Directive>>

C4_Witness ==
  \E p, q, r \in Procs :
    /\ pc[p] = "panicked" /\ stdout[p] = <<Directive>>
    /\ pc[q] = "exited" /\ result[q] = "Ok" /\ stdout[q] = <<Directive>>
    /\ pc[r] = "exited" /\ found[r] = "true" /\ stdout[r] = <<Directive>>

\* C5: an invocation that starts with a directory at "build" attempts no
\* creation, leaves the working directory as it found it and exits
\* successfully; and invocations run one after another all leave the working
\* directory the first one left.
C5_Idempotent ==
  \A p \in Procs :
    Terminated(p) =>
      /\ fsAtStart[p][BuildPath] = "dir"
           => (createCalls[p] = 0 /\ fsAtExit[p] = fsAtStart[p] /\ pc[p] = "exited")
      /\ \A q \in Procs : Terminated(q) => fsAtExit[q] = fsAtExit[p]
      /\ (\A q \in Procs : ~Running(q)) => fs = fsAtExit[p]

C5_Witness ==
  /\ \A p \in Procs : Terminated(p)
  /\ fs0[BuildPath] = "absent"
  /\ fs[BuildPath] = "dir"
  /\ \E p \in Procs : fsAtStart[p][BuildPath] = "dir" /\ createCalls[p] = 0

\* C6: an invocation exits successfully exactly when no creation failed
\* (none attempted, or the attempt succeeded), aborts exactly when its one
\* attempt failed, and never calls create more than once.
C6_OutcomeByCreate ==
  \A p \in Procs :
    /\ createCalls[p] <= 1
    /\ createCalls[p] = 0 <=> result[p] = "unset"
    /\ Terminated(p) =>
         /\ pc[p] = "exited" <=> result[p] \in {"unset", "Ok"}
         /\ pc[p] = "panicked" <=> (result[p] \in Errors /\ createCalls[p] = 1)
         /\ ExitCode(p) = 0 <=> result[p] \notin Errors

C6_Witness ==
  \E p, q, r \in Procs :
    /\ pc[p] = "exited" /\ createCalls[p] = 0
    /\ pc[q] = "exited" /\ result[q] = "Ok"
    /\ pc[r] = "panicked" /\ result[r] \in Errors

C8_Frame ==
  [][ \/ fs' = fs
      \/ /\ fs[BuildPath] = "absent"
         /\ fs' = [fs EXCEPT ![BuildPath] = "dir"] ]_vars

C8_Witness ==
  \E p, q \in Procs :
    /\ result[p] = "Ok" /\ Terminated(p)
    /\ result[q] = "AlreadyExists" /\ Terminated(q)
    /\ fs["inputs"] = "dir"
    /\ fs = [fs0 EXCEPT ![BuildPath] = "dir"]

\* C9: an already-exists failure of the create call comes after an existence
\* check that answered "absent" and is never tolerated: the invocation panics.
\* The witness is the race: two invocations both see "build" absent, one
\* creates it, the other's create call fails and it aborts.
C9_AlreadyExistsNotTolerated ==
  \A p \in Procs :
    result[p] = "AlreadyExists" =>
      /\ found[p] = "false"
      /\ pc[p] \in {"unwrap", "panicked"}
      /\ Terminated(p) => ExitCode(p) # 0

C9_Witness ==
  /\ fs0[BuildPath] = "absent"
  /\ \E p, q \in Procs :
       /\ p # q
       /\ observed[p] = "absent" /\ observed[q] = "absent"
       /\ result[q] = "Ok" /\ pc[q] = "exited"
       /\ result[p] = "AlreadyExists" /\ pc[p] = "panicked"
       /\ ExitCode(p) # 0

\* The invocations whose create call succeeded.
Creators == {p \in Procs : result[p] = "Ok"}

\* C10: when "build" is absent at first and creation is permitted, every
\* started invocation ends, at most one create call succeeds, and once at
\* least one invocation has ended and none is running exactly one create call
\* has succeeded and "build" is a directory.
C10_ExactlyOneCreator ==
  /\ [](fs0[BuildPath] = "absent" /\ cwdWritable =>
          /\ Cardinality(Creators) <= 1
          /\ ((\E p \in Procs : Terminated(p)) /\ (\A p \in Procs : ~Running(p)))
               => (Cardinality(Creators) = 1 /\ fs[BuildPath] = "dir"))
  /\ \A p \in Procs :
       (fs0[BuildPath] = "absent" /\ cwdWritable /\ pc[p] # "idle") ~> Terminated(p)

C10_Witness ==
  /\ fs0[BuildPath] = "absent"
  /\ cwdWritable
  /\ \A p \in Procs : Terminated(p)
  /\ \E p \in Procs : pc[p] = "panicked"
  /\ Cardinality(Creators) = 1
  /\ fs[BuildPath] = "dir"

====
